---- MODULE Spec2Model ----
(***************************************************************************)
(* imgd: upload admission-and-storage pipeline.                            *)
(*   auth_middleware -> rate_limit_middleware -> concurrency_middleware     *)
(*   -> upload_handler, over a shared SimpleRateLimiter, Semaphore,         *)
(*   Metrics and a filesystem (.tmp staging files and final objects).       *)
(* Every step of a request between two shared-state operations or await     *)
(* points is one action; requests interleave freely.                        *)
(***************************************************************************)
EXTENDS Integers, Sequences, FiniteSets, TLC

\* ------------------------------------------------------------------ bounds
Reqs == {"r1", "r2"}            \* request tasks that may arrive
MaxTicks == 1                   \* clock steps while requests are served
TickSecs == 90                  \* seconds per clock step while requests are served
MaxFineTicks == 5               \* clock steps of the component runs
FineSecs == 30                  \* seconds per clock step of the component runs
MonthSecs == 90                 \* seconds from server start to the end of the month
StartMonthIndex == 2026 * 12 + 11   \* the server starts in December 2026
MaxUploadBytes == 13            \* config.max_upload_bytes of the running server

\* ------------------------------------------------------- program constants
WindowSecs == 60                \* SimpleRateLimiter::new(Duration::from_secs(60))
HeaderLen == 12                 \* Vec::with_capacity(12), need = 12 - header.len()

\* Option<T>: None is the empty sequence, Some(x) the one-element sequence
NoneV == <<>>

Some(x) == <<x>>

IsSome(o) == Len(o) = 1

Unwrap(o) == o[1]

\* ------------------------------------------------------------------ bytes
RIFF == <<82, 73, 70, 70>>
WEBP == <<87, 69, 66, 80>>
Fixture12 == RIFF \o <<16, 0, 0, 0>> \o WEBP
HelloWorld == <<104, 101, 108, 108, 111, 44, 32, 119, 111, 114, 108, 100>>
\* a valid image followed by padding, three chunks long
TooLarge == Fixture12 \o <<0, 0, 0, 0, 0, 0, 0, 0>>

Min(a, b) == IF a < b THEN a ELSE b

Take(s, n) == SubSeq(s, 1, Min(n, Len(s)))

Drop(s, n) == SubSeq(s, Min(n, Len(s)) + 1, Len(s))

\* variant: only the container tag is compared
HasRiffOnly(header) == Len(header) >= 4 /\ SubSeq(header, 1, 4) = RIFF

\* webp::has_webp_signature
HasWebpSignature(header) ==
    /\ Len(header) >= 12
    /\ SubSeq(header, 1, 4) = RIFF
    /\ SubSeq(header, 9, 12) = WEBP

\* Sha256::new / update / hex::encode(finalize): an ideal hash, the digest
\* stands for the byte string fed to the hasher, in feeding order.
Sha256New == <<>>

\* variant: the hasher keeps only the last chunk
Sha256UpdateLastOnly(h, chunk) == chunk

\* variant: each chunk is put in front of what was hashed before
Sha256UpdateReversed(h, chunk) == chunk \o h

Sha256Update(h, chunk) == h \o chunk

Sha256Hex(h) == <<"sha256">> \o h

\* ------------------------------------------------------------------ clock
\* the clock counts seconds since the server started
\* Instant::now()
InstantNow(t) == t

\* Utc::now()
UtcNow(t) == t

\* Utc::now().year() / .month()
UtcYear(t) == (StartMonthIndex + t \div MonthSecs) \div 12

\* variant: the month is that of the server's start
UtcMonthAtStart(t) == (StartMonthIndex % 12) + 1

UtcMonth(t) == ((StartMonthIndex + t \div MonthSecs) % 12) + 1

\* ------------------------------------------------------------- text values
\* header values, tokens and filenames are sequences of one-character strings
S_secret == <<"s", "1">>
S_limited == <<"s", "2">>
S_expiring == <<"s", "3">>
S_unknown == <<"s", "9">>
BearerPrefix == <<"B", "e", "a", "r", "e", "r", " ">>

\* str::strip_prefix
StripPrefix(v, p) ==
    IF Len(v) >= Len(p) /\ SubSeq(v, 1, Len(p)) = p
    THEN Some(SubSeq(v, Len(p) + 1, Len(v)))
    ELSE NoneV

\* a header byte outside visible ASCII
Opaque == "0xFF"

\* HeaderValue::to_str().ok(): the text, unless a byte is not visible ASCII
ToStr(v) == IF \E i \in 1..Len(v) : v[i] = Opaque THEN NoneV ELSE Some(v)

\* headers.get(name).and_then(|v| v.to_str().ok()).filter(|v| !v.is_empty())
HeaderText(h) ==
    IF IsSome(h) /\ IsSome(ToStr(Unwrap(h))) /\ Unwrap(ToStr(Unwrap(h))) # <<>>
    THEN ToStr(Unwrap(h))
    ELSE NoneV

\* variant: the bearer header is looked at first
ExtractTokenBearerFirst(headers) ==
    LET x == HeaderText(headers.xtoken)
        a == HeaderText(headers.authz)
        t == IF IsSome(a) THEN StripPrefix(Unwrap(a), BearerPrefix) ELSE NoneV
    IN  IF IsSome(t) /\ Unwrap(t) # <<>> THEN t ELSE x

\* auth::extract_token
ExtractToken(headers) ==
    LET x == HeaderText(headers.xtoken)
        a == HeaderText(headers.authz)
    IN  IF IsSome(x) THEN x
        ELSE IF IsSome(a)
             THEN LET t == StripPrefix(Unwrap(a), BearerPrefix)
                  IN  IF IsSome(t) /\ Unwrap(t) # <<>> THEN t ELSE NoneV
             ELSE NoneV

\* lib::extract_ip: a parsable first x-forwarded-for entry, else the peer address
ExtractIp(req) == IF IsSome(req.xff) THEN Unwrap(req.xff) ELSE req.peer

\* ------------------------------------------------------------ token store
\* token::token_fingerprint: the first 12 hex digits of the secret's SHA-256,
\* taken as identifying the secret
TokenFingerprint(token) == <<"fp">> \o token

\* TokenPolicy::from_entry (expires_at already parsed to a clock tick)
PolicyFromEntry(entry) ==
    [name |-> entry.name,
     token_id |-> TokenFingerprint(entry.token),
     expires_at |-> entry.expires_at,
     rate_limit_per_minute |-> entry.rate_limit_per_minute]

LegacyPolicy(legacy) ==
    [name |-> "legacy-default",
     token_id |-> TokenFingerprint(legacy),
     expires_at |-> NoneV,
     rate_limit_per_minute |-> NoneV]

\* HashMap::insert: a later entry with the same key replaces the earlier one
MapInsert(m, k, v) == [x \in DOMAIN m \cup {k} |-> IF x = k THEN v ELSE m[x]]

RECURSIVE InsertEntries(_, _)
InsertEntries(m, entries) ==
    IF entries = <<>> THEN m
    ELSE InsertEntries(MapInsert(m, Head(entries).token, PolicyFromEntry(Head(entries))),
                       Tail(entries))

EmptyMap == [x \in {} |-> 0]

\* TokenStore::from_config: file entries first, then the legacy secret
\* unless the file already defines it (entry().or_insert)
FromConfig(entries, legacy) ==
    LET m == InsertEntries(EmptyMap, entries)
    IN  IF IsSome(legacy) /\ Unwrap(legacy) \notin DOMAIN m
        THEN MapInsert(m, Unwrap(legacy), LegacyPolicy(Unwrap(legacy)))
        ELSE m

\* variant: a credential is refused from the instant of its expiry on
IsExpiredAtDeadline(t, exp) == t >= exp

\* the comparison Utc::now() > exp
IsExpired(t, exp) == t > exp

\* variant: the expiry of a record is not looked at
AuthorizeIgnoringExpiry(store, raw, t) ==
    IF raw \notin DOMAIN store THEN NoneV
    ELSE Some([name |-> store[raw].name,
               token_id |-> store[raw].token_id,
               rate_limit_per_minute |-> store[raw].rate_limit_per_minute])

\* TokenStore::authorize
Authorize(store, raw, t) ==
    IF raw \notin DOMAIN store THEN NoneV
    ELSE LET policy == store[raw]
         IN  IF IsSome(policy.expires_at) /\ IsExpired(t, Unwrap(policy.expires_at))
             THEN NoneV
             ELSE Some([name |-> policy.name,
                        token_id |-> policy.token_id,
                        rate_limit_per_minute |-> policy.rate_limit_per_minute])

\* ----------------------------------------------------------- rate limiter
\* the loop of check(): pop_front while now.duration_since(front) > window
RECURSIVE Prune(_, _)
Prune(queue, nowSecs) ==
    IF queue # <<>> /\ nowSecs - Head(queue) > WindowSecs
    THEN Prune(Tail(queue), nowSecs)
    ELSE queue

\* guard.entry(key).or_default()
QueueOf(m, key) == IF key \in DOMAIN m THEN m[key] ELSE <<>>

\* variant: one request more than the limit is let through
AtLimitOffByOne(queue, max_requests) == Len(queue) > max_requests

\* the comparison queue.len() >= max_requests
AtLimit(queue, max_requests) == Len(queue) >= max_requests

\* variant: a check prunes the queue of every key
RateCheckPruningAll(m, key, max_requests, nowSecs) ==
    LET pruned == [k \in DOMAIN m |-> Prune(m[k], nowSecs)]
        queue == Prune(QueueOf(m, key), nowSecs)
    IN  IF AtLimit(queue, max_requests)
        THEN [map |-> MapInsert(pruned, key, queue), admitted |-> FALSE]
        ELSE [map |-> MapInsert(pruned, key, Append(queue, nowSecs)), admitted |-> TRUE]

\* SimpleRateLimiter::check, run under the limiter's mutex: the new map and
\* the verdict
RateCheck(m, key, max_requests, nowSecs) ==
    LET queue == Prune(QueueOf(m, key), nowSecs)
    IN  IF AtLimit(queue, max_requests)
        THEN [map |-> MapInsert(m, key, queue), admitted |-> FALSE]
        ELSE [map |-> MapInsert(m, key, Append(queue, nowSecs)), admitted |-> TRUE]

\* format!("ip:{ip}") and format!("token:{}", auth.token_id)
IpKey(ip) == <<"ip:", ip>>

TokenKey(token_id) == <<"token:">> \o token_id

\* ------------------------------------------------------------------ webp
Lower(c) ==
    CASE c = "W" -> "w" [] c = "E" -> "e" [] c = "B" -> "b" [] c = "P" -> "p"
      [] c = "N" -> "n" [] c = "G" -> "g" [] OTHER -> c

\* index of the last occurrence of c in s, 0 if none
LastIndexOf(s, c) ==
    LET I == {i \in 1..Len(s) : s[i] = c}
    IN  IF I = {} THEN 0 ELSE CHOOSE i \in I : \A j \in I : j <= i

\* Path::file_name: the last component
FileNameOf(s) == SubSeq(s, LastIndexOf(s, "/") + 1, Len(s))

\* Path::extension: what follows the last dot of the file name; none when
\* there is no dot or the only dot leads the name
Extension(s) ==
    LET f == FileNameOf(s)
        d == LastIndexOf(f, ".")
    IN  IF f = <<>> \/ f = <<".", ".">> \/ d <= 1 THEN NoneV
        ELSE Some(SubSeq(f, d + 1, Len(f)))

\* variant: any extension is accepted
HasAnyExtension(filename) == IsSome(Extension(filename))

\* webp::has_webp_extension (eq_ignore_ascii_case)
HasWebpExtension(filename) ==
    LET e == Extension(filename)
    IN  /\ IsSome(e)
        /\ [i \in 1..Len(Unwrap(e)) |-> Lower(Unwrap(e)[i])] = <<"w", "e", "b", "p">>

\* ----------------------------------------------------------------- paths
\* the decimal digits of a natural number
Digit(d) ==
    CASE d = 0 -> "0" [] d = 1 -> "1" [] d = 2 -> "2" [] d = 3 -> "3" [] d = 4 -> "4"
      [] d = 5 -> "5" [] d = 6 -> "6" [] d = 7 -> "7" [] d = 8 -> "8" [] d = 9 -> "9"

RECURSIVE Digits(_)
Digits(n) == IF n < 10 THEN <<Digit(n)>> ELSE Digits(n \div 10) \o <<Digit(n % 10)>>

\* format!("{n:0width}"): zero-padded to at least width digits
ZeroPad(n, width) ==
    LET d == Digits(n)
    IN  IF Len(d) >= width THEN d ELSE [i \in 1..(width - Len(d)) |-> "0"] \o d

\* format!("/{year:04}/{month:02}/{sha256}.webp"): the root, then one
\* element per path component
RelativePath(year, month, sha256) ==
    <<"/", ZeroPad(year, 4), ZeroPad(month, 2)>> \o sha256 \o <<".webp">>

\* data_dir.join(format!("{year:04}")).join(format!("{month:02}"))
\*   .join(format!("{sha256}.webp"))
FinalPath(year, month, sha256) ==
    <<ZeroPad(year, 4), ZeroPad(month, 2)>> \o sha256 \o <<".webp">>

\* data_dir.join(path.trim_start_matches('/')): the file a reported path names
Resolve(relative) == Tail(relative)

\* ----------------------------------------------------------------- state
VARIABLES
    now,          \* the clock read by Instant::now() and Utc::now(), in seconds
    config,       \* AppConfig: max_concurrent_uploads, rate_limit_per_minute
    tokens,       \* TokenStore.tokens: secret -> TokenPolicy
    windows,      \* SimpleRateLimiter.inner: key -> queue of instants
    permits,      \* upload_semaphore: available permits
    metrics,      \* Metrics: upload_ok, upload_fail, upload_limited
    tmpFiles,     \* files under <data_dir>/.tmp: name -> file
    finalFiles,   \* files under <data_dir>/<year>/<month>: path -> file
    pc,           \* where each request task stands
    req,          \* each request as sent by its client
    ext,          \* req.extensions(): the AuthorizedToken, if inserted
    st,           \* upload_handler's locals
    resp,         \* the response returned
    probe         \* arguments and result of the last direct call (component runs)

vars == <<now, config, tokens, windows, permits, metrics, tmpFiles, finalFiles,
          pc, req, ext, st, resp, probe>>

shared == <<windows, permits, metrics, tmpFiles, finalFiles>>

\* ---------------------------------------------------------------- inputs
NoHeaders == [xtoken |-> NoneV, authz |-> NoneV]

\* x-upload-token: <token>
XToken(token) == [xtoken |-> Some(token), authz |-> NoneV]

\* authorization: Bearer <token>
Bearer(token) == [xtoken |-> NoneV, authz |-> Some(BearerPrefix \o token)]

\* where the connection comes from: directly, or through a proxy that sets
\* x-forwarded-for
Direct == [xff |-> NoneV, peer |-> "10.0.0.1"]

Proxied == [xff |-> Some("10.0.0.2"), peer |-> "10.0.0.1"]

F_ok == <<"o", "k", ".", "w", "e", "b", "p">>
F_upper == <<"A", ".", "W", "E", "B", "P">>
F_png == <<"a", ".", "p", "n", "g">>
F_noext == <<"w", "e", "b", "p">>

\* the first part of the multipart body; rest holds the parts that follow it
Field(name, filename, body, ends) ==
    [kind |-> "field", name |-> name, filename |-> filename, body |-> body, ends |-> ends,
     rest |-> <<>>]

\* a body whose first part is followed by one more part
FollowedBy(first, second) == [first EXCEPT !.rest = <<second>>]

NoField(kind) ==
    [kind |-> kind, name |-> "", filename |-> NoneV, body |-> <<>>, ends |-> "eof",
     rest |-> <<>>]

Request(headers, client, parts) ==
    [headers |-> headers, xff |-> client.xff, peer |-> client.peer, parts |-> parts]

\* the requests clients send
\*  - two valid images, under different credentials and source addresses
ValidUploads ==
    {Request(XToken(S_secret), Direct, Field("file", Some(F_ok), Fixture12, "eof")),
     Request(Bearer(S_limited), Proxied,
             FollowedBy(Field("file", Some(F_upper), Fixture12 \o <<0>>, "eof"),
                        Field("file", Some(F_ok), HelloWorld, "eof")))}

\*  - bodies the handler must refuse while or after streaming: over the cap,
\*    no signature, too short for a signature, a stream that breaks
RefusedUploads ==
    {Request(XToken(S_secret), Direct, Field("file", Some(F_ok), TooLarge, "eof")),
     Request(XToken(S_secret), Direct, Field("file", Some(F_ok), HelloWorld, "eof")),
     Request(XToken(S_secret), Direct, Field("file", Some(F_ok), RIFF, "eof")),
     Request(XToken(S_secret), Direct, Field("file", Some(F_ok), RIFF, "error"))}

\*  - requests refused before any byte is read: an unknown credential, none,
\*    one that expires, an empty one, no part, a malformed stream, a wrong
\*    first field, no filename, a wrong or missing extension
EarlyRefused ==
    {Request(XToken(S_unknown), Direct, Field("file", Some(F_ok), Fixture12, "eof")),
     Request(XToken(S_expiring), Direct, NoField("empty")),
     Request(NoHeaders, Direct, Field("file", Some(F_ok), Fixture12, "eof")),
     Request(XToken(S_secret), Direct, NoField("empty")),
     Request(XToken(S_secret), Direct, NoField("malformed")),
     Request(Bearer(<<>>), Direct, Field("file", Some(F_ok), Fixture12, "eof")),
     Request(XToken(S_secret), Direct,
             FollowedBy(Field("note", Some(F_ok), Fixture12, "eof"),
                        Field("file", Some(F_ok), Fixture12, "eof"))),
     Request(XToken(S_secret), Direct, Field("file", NoneV, Fixture12, "eof")),
     Request(XToken(S_secret), Direct, Field("file", Some(F_png), Fixture12, "eof")),
     Request(XToken(S_secret), Direct, Field("file", Some(F_noext), Fixture12, "eof"))}

Requests == ValidUploads \cup RefusedUploads \cup EarlyRefused

\* chunk sizes the multipart stream may deliver
ChunkLens == {8, 16}

\* the token file and legacy secret the server was started with
TokenFileEntries ==
    <<[name |-> "limited", token |-> S_limited, expires_at |-> NoneV,
       rate_limit_per_minute |-> Some(1)],
      [name |-> "expiring", token |-> S_expiring, expires_at |-> Some(60),
       rate_limit_per_minute |-> NoneV]>>

Configs ==
    {[max_concurrent_uploads |-> 1, rate_limit_per_minute |-> 1],
     [max_concurrent_uploads |-> 2, rate_limit_per_minute |-> 2]}

NoRequest == Request(NoHeaders, [xff |-> NoneV, peer |-> ""], NoField("empty"))

NoAuth == NoneV

NoLocals ==
    [tmp |-> NoneV, size |-> 0, header |-> <<>>, hasher |-> Sha256New, pos |-> 0,
     chunk |-> <<>>, sha256 |-> <<>>, year |-> 0, month |-> 0, err |-> ""]

NoResponse ==
    [kind |-> "none", status |-> 0, url |-> <<>>, path |-> <<>>, sha256 |-> <<>>, size |-> 0]

NoProbe == [op |-> "none"]

\* state after main(): AppState built, no request yet
InitState ==
    /\ now = 0
    /\ windows = EmptyMap
    /\ permits = config.max_concurrent_uploads
    /\ metrics = [upload_ok |-> 0, upload_fail |-> 0, upload_limited |-> 0]
    /\ tmpFiles = EmptyMap
    /\ finalFiles = EmptyMap
    /\ pc = [r \in Reqs |-> "new"]
    /\ req = [r \in Reqs |-> NoRequest]
    /\ ext = [r \in Reqs |-> NoAuth]
    /\ st = [r \in Reqs |-> NoLocals]
    /\ resp = [r \in Reqs |-> NoResponse]

Init ==
    /\ config \in Configs
    /\ tokens = FromConfig(TokenFileEntries, Some(S_secret))
    /\ InitState
    /\ probe = NoProbe

\* -------------------------------------------------------------- responses
\* the status of each AppError
StatusCode(kind) ==
    CASE kind = "unauthorized" -> 401
      [] kind = "unsupported_media_type" -> 415
      [] kind = "file_too_large" -> 413
      [] kind = "bad_request" -> 400
      [] kind = "too_many_requests" -> 429
      [] kind = "internal_error" -> 500

\* AppError::into_response: the status and the error string
ErrorResponse(kind) == [NoResponse EXCEPT !.kind = kind, !.status = StatusCode(kind)]

\* Json(UploadResponse { url, path, sha256, size })
OkResponse(l) ==
    [kind |-> "ok",
     status |-> 200,
     url |-> <<"https://img.example.com/images">> \o RelativePath(l.year, l.month, l.sha256),
     path |-> RelativePath(l.year, l.month, l.sha256),
     sha256 |-> l.sha256,
     size |-> l.size]

\* fetch_add(1, Ordering::Relaxed) on one counter
FetchAdd(m, counter) == [m EXCEPT ![counter] = @ + 1]

\* variant: the permit is never given back
ReleaseNothing(p) == p

\* drop of the OwnedSemaphorePermit
Release(p) == p + 1

\* -------------------------------------------------------------- middleware
\* variant: a refused credential is counted as a failed upload
AuthMiddlewareCounting(r) ==
    /\ pc[r] = "new"
    /\ \E q \in Requests :
          LET raw == ExtractToken(q.headers)
              authorized == IF IsSome(raw) THEN Authorize(tokens, Unwrap(raw), UtcNow(now))
                            ELSE NoneV
          IN  /\ req' = [req EXCEPT ![r] = q]
              /\ IF IsSome(authorized)
                 THEN /\ ext' = [ext EXCEPT ![r] = authorized]
                      /\ pc' = [pc EXCEPT ![r] = "rate_ip"]
                      /\ resp' = resp
                      /\ metrics' = metrics
                 ELSE /\ ext' = ext
                      /\ pc' = [pc EXCEPT ![r] = "done"]
                      /\ resp' = [resp EXCEPT ![r] = ErrorResponse("unauthorized")]
                      /\ metrics' = FetchAdd(metrics, "upload_fail")
    /\ UNCHANGED <<now, config, tokens, windows, permits, tmpFiles, finalFiles, st, probe>>

\* auth::auth_middleware on a request that has just arrived
AuthMiddleware(r) ==
    /\ pc[r] = "new"
    /\ \E q \in Requests :
          LET raw == ExtractToken(q.headers)
              authorized == IF IsSome(raw) THEN Authorize(tokens, Unwrap(raw), UtcNow(now))
                            ELSE NoneV
          IN  /\ req' = [req EXCEPT ![r] = q]
              /\ IF IsSome(authorized)
                 THEN /\ ext' = [ext EXCEPT ![r] = authorized]
                      /\ pc' = [pc EXCEPT ![r] = "rate_ip"]
                      /\ resp' = resp
                 ELSE /\ ext' = ext
                      /\ pc' = [pc EXCEPT ![r] = "done"]
                      /\ resp' = [resp EXCEPT ![r] = ErrorResponse("unauthorized")]
    /\ UNCHANGED <<now, config, tokens, shared, st, probe>>

\* variant: a rejection by a gate is counted as a failed upload
LimitedAsFailure(r) ==
    /\ metrics' = [metrics EXCEPT !.upload_fail = @ + 1]
    /\ pc' = [pc EXCEPT ![r] = "done"]
    /\ resp' = [resp EXCEPT ![r] = [kind |-> "too_many_requests", status |-> 429,
                                     url |-> <<>>, path |-> <<>>, sha256 |-> <<>>,
                                     size |-> 0]]

\* a rejection by either gate: upload_limited is counted, 429 is returned
Limited(r) ==
    /\ metrics' = FetchAdd(metrics, "upload_limited")
    /\ pc' = [pc EXCEPT ![r] = "done"]
    /\ resp' = [resp EXCEPT ![r] = ErrorResponse("too_many_requests")]

\* variant: the identity's window is never consulted
RateLimitIpOnly(r) ==
    /\ pc[r] = "rate_ip"
    /\ LET res == RateCheck(windows, IpKey(ExtractIp(req[r])),
                            config.rate_limit_per_minute, InstantNow(now))
       IN  /\ windows' = res.map
           /\ IF ~res.admitted
              THEN Limited(r)
              ELSE /\ pc' = [pc EXCEPT ![r] = "acquire"]
                   /\ UNCHANGED <<metrics, resp>>
    /\ UNCHANGED <<now, config, tokens, permits, tmpFiles, finalFiles, req, ext, st, probe>>

\* lib::rate_limit_middleware, the check of the address window
RateLimitIp(r) ==
    /\ pc[r] = "rate_ip"
    /\ LET res == RateCheck(windows, IpKey(ExtractIp(req[r])),
                            config.rate_limit_per_minute, InstantNow(now))
       IN  /\ windows' = res.map
           /\ IF ~res.admitted
              THEN Limited(r)
              ELSE /\ pc' = [pc EXCEPT ![r] =
                            IF IsSome(ext[r]) /\ IsSome(Unwrap(ext[r]).rate_limit_per_minute)
                            THEN "rate_token" ELSE "acquire"]
                   /\ UNCHANGED <<metrics, resp>>
    /\ UNCHANGED <<now, config, tokens, permits, tmpFiles, finalFiles, req, ext, st, probe>>

\* lib::rate_limit_middleware, the check of the identity window
RateLimitToken(r) ==
    /\ pc[r] = "rate_token"
    /\ LET auth == Unwrap(ext[r])
           res == RateCheck(windows, TokenKey(auth.token_id),
                            Unwrap(auth.rate_limit_per_minute), InstantNow(now))
       IN  /\ windows' = res.map
           /\ IF ~res.admitted
              THEN Limited(r)
              ELSE /\ pc' = [pc EXCEPT ![r] = "acquire"]
                   /\ UNCHANGED <<metrics, resp>>
    /\ UNCHANGED <<now, config, tokens, permits, tmpFiles, finalFiles, req, ext, st, probe>>

\* variant: a permit is handed out when none is left
HasPermitOffByOne(p) == p >= 0

\* Semaphore::try_acquire_owned succeeds
HasPermit(p) == p > 0

\* variant: a rejection by the concurrency gate takes the request's latest
\* timestamp back out of its address window
ConcurrencyMiddlewareRefunding(r) ==
    /\ pc[r] = "acquire"
    /\ IF HasPermit(permits)
       THEN /\ permits' = permits - 1
            /\ pc' = [pc EXCEPT ![r] = "next_field"]
            /\ UNCHANGED <<metrics, resp, windows>>
       ELSE /\ Limited(r)
            /\ permits' = permits
            /\ LET key == IpKey(ExtractIp(req[r]))
                   queue == QueueOf(windows, key)
               IN  windows' = IF queue = <<>> THEN windows
                              ELSE [windows EXCEPT ![key] = SubSeq(queue, 1, Len(queue) - 1)]
    /\ UNCHANGED <<now, config, tokens, tmpFiles, finalFiles, req, ext, st, probe>>

\* lib::concurrency_middleware: try_acquire_owned, then the handler runs up
\* to its first await, multipart.next_field()
ConcurrencyMiddleware(r) ==
    /\ pc[r] = "acquire"
    /\ IF HasPermit(permits)
       THEN /\ permits' = permits - 1
            /\ pc' = [pc EXCEPT ![r] = "next_field"]
            /\ UNCHANGED <<metrics, resp>>
       ELSE /\ Limited(r)
            /\ permits' = permits
    /\ UNCHANGED <<now, config, tokens, windows, tmpFiles, finalFiles, req, ext, st, probe>>

\* ------------------------------------------------------------- filesystem
\* variant: the file is left in place
RemoveNothing(files, name) == files

\* fs::remove_file (its result is ignored by every caller)
RemoveFile(files, name) == [n \in DOMAIN files \ {name} |-> files[n]]

\* Uuid::new_v4(): a name no other request draws
NewUuid(r) == <<"uploading", r>>

\* OpenOptions::new().create_new(true).write(true).open(path): a fresh, empty
\* file; ino names the file object, here by the request that created it
NewFile(r) == [data |-> <<>>, ino |-> r]

\* variant: the move does not reach the destination
RenameLost(finals, path, file) == finals

\* fs::rename(from, to): the file object moves to the destination name,
\* replacing whatever the destination named before
RenameInto(finals, path, file) == MapInsert(finals, path, file)

\* variant: the destination is never found
TryExistsNever(finals, path) == FALSE

\* fs::try_exists
TryExistsFile(finals, path) == path \in DOMAIN finals

\* -------------------------------------------------------------- the handler
HandlerPcs ==
    {"next_field", "mk_tmp_dir", "create_tmp", "chunk", "write", "flush",
     "mk_final_dir", "try_exists", "rename", "dedup", "cleanup"}

\* upload_handler returns: the response goes out and the permit bound in
\* concurrency_middleware is dropped
Return(r, response) ==
    /\ pc' = [pc EXCEPT ![r] = "done"]
    /\ resp' = [resp EXCEPT ![r] = response]
    /\ st' = [st EXCEPT ![r] = NoLocals]
    /\ permits' = Release(permits)

\* variant: a failure is counted twice
FailCountingTwice(r, kind) ==
    /\ metrics' = FetchAdd(FetchAdd(metrics, "upload_fail"), "upload_fail")
    /\ Return(r, ErrorResponse(kind))

\* an error path that counts upload_fail and returns
Fail(r, kind) ==
    /\ metrics' = FetchAdd(metrics, "upload_fail")
    /\ Return(r, ErrorResponse(kind))

\* variant: after a failure the handler goes back to reading the body
AbortAndRetry(r, kind) ==
    /\ pc' = [pc EXCEPT ![r] = "chunk"]
    /\ st' = [st EXCEPT ![r].err = kind]

\* an error path that must first remove the temp file
Abort(r, kind) ==
    /\ pc' = [pc EXCEPT ![r] = "cleanup"]
    /\ st' = [st EXCEPT ![r].err = kind]

TmpPath(r) == Unwrap(st[r].tmp)

\* variant: the name of the first part is not looked at
NextFieldAnyName(r) ==
    /\ pc[r] = "next_field"
    /\ LET parts == req[r].parts
       IN  IF parts.kind = "malformed"
           THEN /\ Return(r, ErrorResponse("bad_request"))
                /\ UNCHANGED metrics
           ELSE IF parts.kind = "empty" \/ ~IsSome(parts.filename)
           THEN Fail(r, "bad_request")
           ELSE IF ~HasWebpExtension(Unwrap(parts.filename))
           THEN Fail(r, "unsupported_media_type")
           ELSE /\ pc' = [pc EXCEPT ![r] = "mk_tmp_dir"]
                /\ UNCHANGED <<metrics, resp, permits, st>>
    /\ UNCHANGED <<now, config, tokens, windows, tmpFiles, finalFiles, req, ext, probe>>

\* multipart.next_field().await? and the checks of the field
NextField(r) ==
    /\ pc[r] = "next_field"
    /\ LET parts == req[r].parts
       IN  IF parts.kind = "malformed"
           THEN /\ Return(r, ErrorResponse("bad_request"))
                /\ UNCHANGED metrics
           ELSE IF parts.kind = "empty" \/ parts.name # "file" \/ ~IsSome(parts.filename)
           THEN Fail(r, "bad_request")
           ELSE IF ~HasWebpExtension(Unwrap(parts.filename))
           THEN Fail(r, "unsupported_media_type")
           ELSE /\ pc' = [pc EXCEPT ![r] = "mk_tmp_dir"]
                /\ UNCHANGED <<metrics, resp, permits, st>>
    /\ UNCHANGED <<now, config, tokens, windows, tmpFiles, finalFiles, req, ext, probe>>

\* fs::create_dir_all(&tmp_dir).await?, then the temp name is drawn
MkTmpDir(r) ==
    /\ pc[r] = "mk_tmp_dir"
    /\ \E ok \in BOOLEAN :
          IF ok
          THEN /\ st' = [st EXCEPT ![r].tmp = Some(NewUuid(r))]
               /\ pc' = [pc EXCEPT ![r] = "create_tmp"]
               /\ UNCHANGED <<resp, permits>>
          ELSE Return(r, ErrorResponse("internal_error"))
    /\ UNCHANGED <<now, config, tokens, windows, metrics, tmpFiles, finalFiles, req, ext, probe>>

\* create_new_file(&tmp_path).await?: exclusive create
CreateTmp(r) ==
    /\ pc[r] = "create_tmp"
    /\ \E ok \in BOOLEAN :
          IF ok /\ TmpPath(r) \notin DOMAIN tmpFiles
          THEN /\ tmpFiles' = MapInsert(tmpFiles, TmpPath(r), NewFile(r))
               /\ pc' = [pc EXCEPT ![r] = "chunk"]
               /\ UNCHANGED <<resp, permits, st>>
          ELSE /\ Return(r, ErrorResponse("internal_error"))
               /\ tmpFiles' = tmpFiles
    /\ UNCHANGED <<now, config, tokens, windows, metrics, finalFiles, req, ext, probe>>

\* variant: the header is taken from the latest chunk alone
ExtendHeaderPerChunk(header, chunk) == Take(chunk, HeaderLen)

\* header.extend_from_slice(&chunk[..take])
ExtendHeader(header, chunk) ==
    IF Len(header) < HeaderLen
    THEN header \o Take(chunk, HeaderLen - Len(header))
    ELSE header

\* variant: the cap is applied at twice its value
OverCapLenient(size) == size > 2 * MaxUploadBytes

\* the comparison size > max_upload_bytes
OverCap(size) == size > MaxUploadBytes

\* field.chunk().await and the size check
FieldChunk(r) ==
    /\ pc[r] = "chunk"
    /\ LET parts == req[r].parts
           l == st[r]
       IN  IF l.pos < Len(parts.body)
           THEN \E n \in ChunkLens :
                  LET chunk == Take(Drop(parts.body, l.pos), n)
                      size == l.size + Len(chunk)
                  IN  IF OverCap(size)
                      THEN /\ pc' = [pc EXCEPT ![r] = "cleanup"]
                           /\ st' = [st EXCEPT ![r].pos = l.pos + Len(chunk),
                                                ![r].size = size,
                                                ![r].err = "file_too_large"]
                      ELSE /\ pc' = [pc EXCEPT ![r] = "write"]
                           /\ st' = [st EXCEPT ![r].pos = l.pos + Len(chunk),
                                                ![r].size = size,
                                                ![r].chunk = chunk,
                                                ![r].header = ExtendHeader(l.header, chunk)]
           ELSE IF parts.ends = "error"
           THEN Abort(r, "bad_request")
           ELSE /\ pc' = [pc EXCEPT ![r] = "flush"]
                /\ st' = st
    /\ UNCHANGED <<now, config, tokens, shared, req, ext, resp, probe>>

\* writer.write_all(&chunk).await, then hasher.update(&chunk); a failed
\* write leaves a part of the chunk in the file: none of it, or all but the
\* last byte
WriteAll(r) ==
    /\ pc[r] = "write"
    /\ LET l == st[r]
           f == tmpFiles[TmpPath(r)]
       IN  \/ /\ tmpFiles' = [tmpFiles EXCEPT ![TmpPath(r)].data = f.data \o l.chunk]
              /\ st' = [st EXCEPT ![r].hasher = Sha256Update(l.hasher, l.chunk),
                                   ![r].chunk = <<>>]
              /\ pc' = [pc EXCEPT ![r] = "chunk"]
           \/ \E k \in {0, Len(l.chunk) - 1} :
                 /\ tmpFiles' = [tmpFiles EXCEPT ![TmpPath(r)].data = f.data \o Take(l.chunk, k)]
                 /\ Abort(r, "internal_error")
    /\ UNCHANGED <<now, config, tokens, windows, permits, metrics, finalFiles, req, ext,
                   resp, probe>>

\* writer.flush().await, drop(writer), the signature check, the digest and
\* the date of the commit
Flush(r) ==
    /\ pc[r] = "flush"
    /\ \E ok \in BOOLEAN :
          IF ~ok
          THEN Abort(r, "internal_error")
          ELSE IF ~HasWebpSignature(st[r].header)
          THEN Abort(r, "unsupported_media_type")
          ELSE /\ pc' = [pc EXCEPT ![r] = "mk_final_dir"]
               /\ st' = [st EXCEPT ![r].sha256 = Sha256Hex(st[r].hasher),
                                    ![r].year = UtcYear(UtcNow(now)),
                                    ![r].month = UtcMonth(UtcNow(now))]
    /\ UNCHANGED <<now, config, tokens, shared, req, ext, resp, probe>>

\* fs::create_dir_all(&final_dir).await
MkFinalDir(r) ==
    /\ pc[r] = "mk_final_dir"
    /\ \E ok \in BOOLEAN :
          IF ok
          THEN /\ pc' = [pc EXCEPT ![r] = "try_exists"]
               /\ st' = st
          ELSE Abort(r, "internal_error")
    /\ UNCHANGED <<now, config, tokens, shared, req, ext, resp, probe>>

MyFinalPath(r) == FinalPath(st[r].year, st[r].month, st[r].sha256)

\* fs::try_exists(&final_path).await
TryExists(r) ==
    /\ pc[r] = "try_exists"
    /\ \E ok \in BOOLEAN :
          IF ~ok
          THEN Abort(r, "internal_error")
          ELSE /\ pc' = [pc EXCEPT ![r] =
                        IF TryExistsFile(finalFiles, MyFinalPath(r)) THEN "dedup" ELSE "rename"]
               /\ st' = st
    /\ UNCHANGED <<now, config, tokens, shared, req, ext, resp, probe>>

\* fs::rename(&tmp_path, &final_path).await and its three arms
Rename(r) ==
    /\ pc[r] = "rename"
    /\ \/ /\ finalFiles' = RenameInto(finalFiles, MyFinalPath(r), tmpFiles[TmpPath(r)])
          /\ tmpFiles' = RemoveFile(tmpFiles, TmpPath(r))
          /\ metrics' = FetchAdd(metrics, "upload_ok")
          /\ Return(r, OkResponse(st[r]))
       \/ /\ MyFinalPath(r) \in DOMAIN finalFiles
          /\ pc' = [pc EXCEPT ![r] = "dedup"]
          /\ UNCHANGED <<st, shared, resp>>
       \/ /\ Abort(r, "internal_error")
          /\ UNCHANGED <<shared, resp>>
    /\ UNCHANGED <<now, config, tokens, windows, req, ext, probe>>

\* the destination is already there: remove the temp file, report success
Dedup(r) ==
    /\ pc[r] = "dedup"
    /\ tmpFiles' = RemoveFile(tmpFiles, TmpPath(r))
    /\ metrics' = FetchAdd(metrics, "upload_ok")
    /\ Return(r, OkResponse(st[r]))
    /\ UNCHANGED <<now, config, tokens, windows, finalFiles, req, ext, probe>>

\* let _ = fs::remove_file(&tmp_path).await; upload_fail += 1; return Err(..)
Cleanup(r) ==
    /\ pc[r] = "cleanup"
    /\ tmpFiles' = RemoveFile(tmpFiles, TmpPath(r))
    /\ Fail(r, st[r].err)
    /\ UNCHANGED <<now, config, tokens, windows, finalFiles, req, ext, probe>>

\* the connection closes and the request's task is dropped at an await of
\* the handler: the request, its extensions and the handler's locals are
\* dropped, the permit among them
Cancel(r) ==
    /\ pc[r] \in HandlerPcs
    /\ pc' = [pc EXCEPT ![r] = "cancelled"]
    /\ st' = [st EXCEPT ![r] = NoLocals]
    /\ req' = [req EXCEPT ![r] = NoRequest]
    /\ ext' = [ext EXCEPT ![r] = NoAuth]
    /\ permits' = Release(permits)
    /\ UNCHANGED <<now, config, tokens, windows, metrics, tmpFiles, finalFiles, resp, probe>>

\* time passes
Tick ==
    /\ now + TickSecs <= MaxTicks * TickSecs
    /\ now' = now + TickSecs
    /\ UNCHANGED <<config, tokens, shared, pc, req, ext, st, resp, probe>>

Next ==
    \/ Tick
    \/ \E r \in Reqs :
          \/ AuthMiddleware(r)
          \/ RateLimitIp(r)
          \/ RateLimitToken(r)
          \/ ConcurrencyMiddleware(r)
          \/ NextField(r)
          \/ MkTmpDir(r)
          \/ CreateTmp(r)
          \/ FieldChunk(r)
          \/ WriteAll(r)
          \/ Flush(r)
          \/ MkFinalDir(r)
          \/ TryExists(r)
          \/ Rename(r)
          \/ Dedup(r)
          \/ Cleanup(r)
          \/ Cancel(r)

Spec == Init /\ [][Next]_vars

\* the next step of upload_handler for request r: its task is polled again
\* once the I/O it awaits has completed
HandlerStep(r) ==
    \/ NextField(r)
    \/ MkTmpDir(r)
    \/ CreateTmp(r)
    \/ FieldChunk(r)
    \/ WriteAll(r)
    \/ Flush(r)
    \/ MkFinalDir(r)
    \/ TryExists(r)
    \/ Rename(r)
    \/ Dedup(r)
    \/ Cleanup(r)

\* the server of the progress runs: one configuration, the clock held still
InitLive ==
    /\ config = [max_concurrent_uploads |-> 2, rate_limit_per_minute |-> 2]
    /\ tokens = FromConfig(TokenFileEntries, Some(S_secret))
    /\ InitState
    /\ probe = NoProbe

NextLive ==
    \E r \in Reqs :
        \/ AuthMiddleware(r)
        \/ RateLimitIp(r)
        \/ RateLimitToken(r)
        \/ ConcurrencyMiddleware(r)
        \/ HandlerStep(r)
        \/ Cancel(r)

\* the runtime polls every ready task, and every I/O operation completes
SpecLive == InitLive /\ [][NextLive]_vars /\ \A r \in Reqs : WF_vars(HandlerStep(r))

\* --------------------------------------------------------- component runs
\* time passes, in the finer steps of the component runs
Elapse ==
    /\ now + FineSecs <= MaxFineTicks * FineSecs
    /\ now' = now + FineSecs
    /\ UNCHANGED <<config, tokens, shared, pc, req, ext, st, resp, probe>>

\* the keys checked and the limit each is always checked with
RateKeys == {IpKey("10.0.0.1"), IpKey("10.0.0.2"), TokenKey(TokenFingerprint(S_limited))}

LimitOf(key) ==
    IF key = IpKey("10.0.0.1") THEN 2
    ELSE IF key = IpKey("10.0.0.2") THEN 0
    ELSE 1

\* the instants at which a key was admitted, oldest first
AdmittedAt(key) == IF key \in DOMAIN probe.log THEN probe.log[key] ELSE <<>>

\* a direct call rate_limiter.check(key, limit)
CallCheck(key) ==
    /\ LET res == RateCheck(windows, key, LimitOf(key), InstantNow(now))
       IN  /\ windows' = res.map
           /\ probe' = [op |-> "check", key |-> key, limit |-> LimitOf(key),
                        at |-> InstantNow(now), before |-> QueueOf(windows, key),
                        admitted |-> res.admitted,
                        log |-> IF res.admitted
                                THEN MapInsert(probe.log, key,
                                               Append(AdmittedAt(key), InstantNow(now)))
                                ELSE probe.log]
    /\ UNCHANGED <<now, config, tokens, permits, metrics, tmpFiles, finalFiles,
                   pc, req, ext, st, resp>>

InitRate ==
    /\ config = [max_concurrent_uploads |-> 1, rate_limit_per_minute |-> 2]
    /\ tokens = FromConfig(TokenFileEntries, Some(S_secret))
    /\ InitState
    /\ probe = [op |-> "none", log |-> EmptyMap]

NextRate == Elapse \/ \E key \in RateKeys : CallCheck(key)

SpecRate == InitRate /\ [][NextRate]_vars

\* token files and legacy secrets a server may be started with: the same
\* secret twice in the file, a legacy secret the file also defines, no file
DuplicateEntries ==
    <<[name |-> "first", token |-> S_limited, expires_at |-> Some(30),
       rate_limit_per_minute |-> NoneV],
      [name |-> "second", token |-> S_limited, expires_at |-> Some(90),
       rate_limit_per_minute |-> Some(1)]>>

Stores ==
    {FromConfig(e, l) :
        e \in {<<>>, TokenFileEntries, DuplicateEntries},
        l \in {NoneV, Some(S_secret), Some(S_limited)}} \ {EmptyMap}

RawTokens == {S_secret, S_limited, S_expiring, S_unknown, <<>>}

\* a direct call token_store.authorize(raw)
CallAuthorize(raw) ==
    /\ probe' = [op |-> "authorize", raw |-> raw, at |-> UtcNow(now),
                 result |-> Authorize(tokens, raw, UtcNow(now))]
    /\ UNCHANGED <<now, config, tokens, shared, pc, req, ext, st, resp>>

InitAuth ==
    /\ config = [max_concurrent_uploads |-> 1, rate_limit_per_minute |-> 2]
    /\ tokens \in Stores
    /\ InitState
    /\ probe = NoProbe

\* header values a client may send under x-upload-token and authorization
XTokenValues ==
    {NoneV, Some(<<>>), Some(S_secret), Some(S_unknown), Some(<<Opaque>>),
     Some(BearerPrefix \o S_secret)}

AuthorizationValues ==
    {NoneV, Some(<<>>), Some(BearerPrefix), Some(BearerPrefix \o S_limited),
     Some(BearerPrefix \o <<" ">> \o S_limited),
     Some(<<"b", "e", "a", "r", "e", "r", " ">> \o S_limited),
     Some(<<"B", "a", "s", "i", "c", " ">> \o S_limited),
     Some(<<"B", "e", "a", "r", "e", "r">> \o S_limited),
     Some(S_limited),
     Some(BearerPrefix \o <<Opaque>>)}

\* a direct call extract_token(headers)
CallExtractToken(x, a) ==
    /\ probe' = [op |-> "extract_token", headers |-> [xtoken |-> x, authz |-> a],
                 result |-> ExtractToken([xtoken |-> x, authz |-> a])]
    /\ UNCHANGED <<now, config, tokens, shared, pc, req, ext, st, resp>>

NextAuth ==
    \/ Elapse
    \/ \E raw \in RawTokens : CallAuthorize(raw)
    \/ \E x \in XTokenValues, a \in AuthorizationValues : CallExtractToken(x, a)

SpecAuth == InitAuth /\ [][NextAuth]_vars

\* -------------------------------------------- the limiter's mutex, step by step
\* tasks that call check on the same key at the same time
Callers == {"t1", "t2", "t3"}

\* the key they race on
RaceKey == IpKey("10.0.0.1")

\* variant: the lock is handed out whether or not it is held
MutexAlwaysFree(holder) == TRUE

\* Mutex::lock succeeds: no task holds the guard
MutexFree(holder) == holder = NoneV

\* self.inner.lock(), Instant::now(), guard.entry(key).or_default()
LockInner(c) ==
    /\ probe.at[c] = "call"
    /\ MutexFree(probe.holder)
    /\ probe' = [probe EXCEPT !.holder = Some(c), !.at[c] = "locked",
                              !.t[c] = InstantNow(now)]
    /\ windows' = MapInsert(windows, RaceKey, QueueOf(windows, RaceKey))
    /\ UNCHANGED <<now, config, tokens, permits, metrics, tmpFiles, finalFiles,
                   pc, req, ext, st, resp>>

\* one turn of the while-let: pop_front if the front is older than the
\* window, else break
PopFront(c) ==
    /\ probe.at[c] = "locked"
    /\ LET queue == QueueOf(windows, RaceKey)
       IN  IF queue # <<>> /\ probe.t[c] - Head(queue) > WindowSecs
           THEN /\ windows' = MapInsert(windows, RaceKey, Tail(queue))
                /\ probe' = probe
           ELSE /\ windows' = windows
                /\ probe' = [probe EXCEPT !.at[c] = "pruned"]
    /\ UNCHANGED <<now, config, tokens, permits, metrics, tmpFiles, finalFiles,
                   pc, req, ext, st, resp>>

\* if queue.len() >= max_requests { return false }
CompareLen(c) ==
    /\ probe.at[c] = "pruned"
    /\ probe' = IF AtLimit(QueueOf(windows, RaceKey), probe.limit)
                THEN [probe EXCEPT !.at[c] = "return", !.verdict[c] = "rejected"]
                ELSE [probe EXCEPT !.at[c] = "compared"]
    /\ UNCHANGED <<now, config, tokens, shared, pc, req, ext, st, resp>>

\* queue.push_back(now); true
PushBack(c) ==
    /\ probe.at[c] = "compared"
    /\ windows' = MapInsert(windows, RaceKey, Append(QueueOf(windows, RaceKey), probe.t[c]))
    /\ probe' = [probe EXCEPT !.at[c] = "return", !.verdict[c] = "admitted"]
    /\ UNCHANGED <<now, config, tokens, permits, metrics, tmpFiles, finalFiles,
                   pc, req, ext, st, resp>>

\* check returns and the guard is dropped
DropGuard(c) ==
    /\ probe.at[c] = "return"
    /\ probe' = [probe EXCEPT !.at[c] = "done",
                              !.holder = IF probe.holder = Some(c) THEN NoneV ELSE @]
    /\ UNCHANGED <<now, config, tokens, shared, pc, req, ext, st, resp>>

\* windows the key may have when the race starts: timestamps of earlier
\* checks, older than the window or not, never more than the limit
RaceQueues(limit, t) ==
    {q \in {<<>>, <<0>>, <<t>>, <<0, t>>, <<0, FineSecs>>, <<t, t>>} : Len(q) <= limit}

InitLock ==
    /\ config = [max_concurrent_uploads |-> 1, rate_limit_per_minute |-> 2]
    /\ tokens = FromConfig(TokenFileEntries, Some(S_secret))
    /\ now = MaxFineTicks * FineSecs
    /\ \E limit \in {1, 2} : \E q \in RaceQueues(limit, now) :
          /\ windows = IF q = <<>> THEN EmptyMap ELSE MapInsert(EmptyMap, RaceKey, q)
          /\ probe = [op |-> "race", limit |-> limit, initial |-> q, holder |-> NoneV,
                      at |-> [c \in Callers |-> "call"],
                      t |-> [c \in Callers |-> 0],
                      verdict |-> [c \in Callers |-> "none"]]
    /\ permits = config.max_concurrent_uploads
    /\ metrics = [upload_ok |-> 0, upload_fail |-> 0, upload_limited |-> 0]
    /\ tmpFiles = EmptyMap
    /\ finalFiles = EmptyMap
    /\ pc = [r \in Reqs |-> "new"]
    /\ req = [r \in Reqs |-> NoRequest]
    /\ ext = [r \in Reqs |-> NoAuth]
    /\ st = [r \in Reqs |-> NoLocals]
    /\ resp = [r \in Reqs |-> NoResponse]

NextLock ==
    \E c \in Callers :
        \/ LockInner(c)
        \/ PopFront(c)
        \/ CompareLen(c)
        \/ PushBack(c)
        \/ DropGuard(c)

SpecLock == InitLock /\ [][NextLock]_vars

\* ------------------------------------------------------------ properties
Body(r) == req[r].parts.body

Done(r) == pc[r] = "done"

Succeeded(r) == Done(r) /\ resp[r].kind = "ok"

InHandler == {r \in Reqs : pc[r] \in HandlerPcs}

\* the temp files a request created
TempsOf(r) == {n \in DOMAIN tmpFiles : tmpFiles[n].ino = r}

\* r sent a well-formed upload (one file part, a .webp filename, a stream
\* that ends) of an image that is within the cap and carries the RIFF/WEBP
\* signature, and has been answered
AnsweredValidUpload(r) ==
    /\ Done(r)
    /\ req[r].parts.kind = "field"
    /\ req[r].parts.name = "file"
    /\ req[r].parts.ends = "eof"
    /\ IsSome(req[r].parts.filename)
    /\ HasWebpExtension(Unwrap(req[r].parts.filename))
    /\ Len(Body(r)) >= 12
    /\ Len(Body(r)) <= MaxUploadBytes
    /\ SubSeq(Body(r), 1, 4) = RIFF
    /\ SubSeq(Body(r), 9, 12) = WEBP

\* the objects of one directory that hold the bytes b
ObjectsHolding(year, month, b) ==
    {p \in DOMAIN finalFiles : p[1] = year /\ p[2] = month /\ finalFiles[p].data = b}

\* the objects of the whole store that hold the bytes b
AllObjectsHolding(b) == {p \in DOMAIN finalFiles : finalFiles[p].data = b}

\* C1 as stated: two answered uploads of the same valid bytes B are never
\* refused on validation grounds, and when both succeed they report the same
\* sha256 and the same path, and exactly one object holds B, at that path.
C1_SamePathAlways ==
    \A r1, r2 \in Reqs :
        (r1 # r2 /\ AnsweredValidUpload(r1) /\ AnsweredValidUpload(r2) /\ Body(r1) = Body(r2))
        => /\ resp[r1].kind \notin {"unsupported_media_type", "file_too_large", "bad_request"}
           /\ (Succeeded(r1) /\ Succeeded(r2))
              => /\ resp[r1].sha256 = resp[r2].sha256
                 /\ resp[r1].path = resp[r2].path
                 /\ AllObjectsHolding(Body(r1)) = {Resolve(resp[r1].path)}

\* C1 as amended: two answered uploads of the same valid bytes B are never
\* refused on validation grounds; when both succeed they report the same
\* sha256, the digest of B; when they also committed in the same UTC month
\* they report the same path; and in the directory of each reported path
\* exactly one object holds B, the one at the reported path.
C1_SamePathWithinMonth ==
    \A r1, r2 \in Reqs :
        (r1 # r2 /\ AnsweredValidUpload(r1) /\ AnsweredValidUpload(r2) /\ Body(r1) = Body(r2))
        => /\ resp[r1].kind \notin {"unsupported_media_type", "file_too_large", "bad_request"}
           /\ (Succeeded(r1) /\ Succeeded(r2))
              => /\ resp[r1].sha256 = resp[r2].sha256
                 /\ resp[r1].sha256 = <<"sha256">> \o Body(r1)
                 /\ resp[r1].size = Len(Body(r1))
                 /\ (resp[r1].path[2] = resp[r2].path[2] /\ resp[r1].path[3] = resp[r2].path[3])
                    => resp[r1].path = resp[r2].path
                 /\ ObjectsHolding(resp[r1].path[2], resp[r1].path[3], Body(r1))
                      = {Resolve(resp[r1].path)}

\* two uploads of the same bytes both succeeded, in the same month
C1_Witness ==
    \E r1, r2 \in Reqs :
        /\ r1 # r2 /\ AnsweredValidUpload(r1) /\ AnsweredValidUpload(r2)
        /\ Body(r1) = Body(r2)
        /\ Succeeded(r1) /\ Succeeded(r2)
        /\ resp[r1].path = resp[r2].path
        /\ finalFiles[Resolve(resp[r1].path)].ino = r2

\* C2: once an object exists at a final path, no step replaces, rewrites or
\* deletes it: the path keeps naming the same file object with the same bytes.
C2_NeverReplaced ==
    [][\A p \in DOMAIN finalFiles :
          p \in DOMAIN finalFiles' /\ finalFiles'[p] = finalFiles[p]]_vars

\* C3: every file at a final path holds the complete body of the upload that
\* staged it, that upload's stream ended, the body is within the cap and
\* carries the signature, and the path's name is the SHA-256 of the bytes;
\* every file under .tmp holds a prefix of its own upload's body.
C3_FinalFilesComplete ==
    /\ \A p \in DOMAIN finalFiles :
          LET f == finalFiles[p]
              q == req[f.ino].parts
          IN  /\ f.data = q.body
              /\ q.ends = "eof"
              /\ Len(f.data) <= MaxUploadBytes
              /\ Len(f.data) >= 12
              /\ SubSeq(f.data, 1, 4) = RIFF
              /\ SubSeq(f.data, 9, 12) = WEBP
              /\ SubSeq(p, 3, Len(p)) = <<"sha256">> \o f.data \o <<".webp">>
    /\ \A r \in Reqs : \A n \in TempsOf(r) :
          pc[r] \in HandlerPcs
          => /\ Len(tmpFiles[n].data) <= Len(Body(r))
             /\ tmpFiles[n].data = SubSeq(Body(r), 1, Len(tmpFiles[n].data))

\* a final file exists while another upload is still staging bytes under .tmp
C3_Witness ==
    /\ DOMAIN finalFiles # {}
    /\ \E r \in Reqs : \E n \in TempsOf(r) :
          /\ pc[r] = "write"
          /\ tmpFiles[n].data # <<>>

\* C4: whenever a success response has been returned, a file exists at the
\* reported path under the storage root, and upload_ok counts exactly the
\* requests answered with success.
C4_SuccessMeansStored ==
    /\ \A r \in Reqs :
          Succeeded(r) => /\ Resolve(resp[r].path) \in DOMAIN finalFiles
                          /\ resp[r].url = <<"https://img.example.com/images">> \o resp[r].path
    /\ metrics.upload_ok = Cardinality({r \in Reqs : Succeeded(r)})

\* one upload succeeded by moving its temp file, another by finding the
\* destination present
C4_Witness ==
    \E r1, r2 \in Reqs :
        /\ r1 # r2 /\ Succeeded(r1) /\ Succeeded(r2)
        /\ resp[r1].path = resp[r2].path
        /\ finalFiles[Resolve(resp[r1].path)].ino = r1
        /\ metrics.upload_ok = 2

C6_NoTempAfterCancel == \A r \in Reqs : pc[r] = "cancelled" => TempsOf(r) = {}

\* C7: at most max_concurrent_uploads requests run inside the handler, and a
\* request at the gate with no permit left takes no step but the rejection
\* with too_many_requests, which is enabled at once.
C7_BoundedAndRejected ==
    /\ [](Cardinality(InHandler) <= config.max_concurrent_uploads)
    /\ [](\A r \in Reqs : pc[r] = "acquire" => ENABLED ConcurrencyMiddleware(r))
    /\ [][\A r \in Reqs :
            (pc[r] = "acquire" /\ Cardinality(InHandler) = config.max_concurrent_uploads
                /\ pc'[r] # pc[r])
            => /\ pc'[r] = "done"
               /\ resp'[r].kind = "too_many_requests"
               /\ pc'[r] \notin HandlerPcs]_vars

\* a request has been rejected by the concurrency gate while the handler was full
C7_Witness ==
    \E r1, r2 \in Reqs :
        /\ pc[r1] \in HandlerPcs
        /\ Cardinality(InHandler) = config.max_concurrent_uploads
        /\ Done(r2) /\ resp[r2].kind = "too_many_requests"
        /\ ExtractIp(req[r1]) # ExtractIp(req[r2])

\* C8: available permits plus requests inside the handler always equal
\* max_concurrent_uploads; with no request in flight all permits are back.
C8_PermitsConserved ==
    /\ permits + Cardinality(InHandler) = config.max_concurrent_uploads
    /\ permits >= 0
    /\ (InHandler = {}) => permits = config.max_concurrent_uploads

\* permits are all back after one request succeeded, and one was dropped
C8_Witness ==
    \E r1, r2 \in Reqs :
        /\ Succeeded(r1)
        /\ pc[r2] = "cancelled"
        /\ permits = config.max_concurrent_uploads

\* C9: for a key always checked with the same limit, the queue never holds
\* more than limit timestamps, at most limit requests are admitted within
\* any span of window length, and a check prunes what is older than the
\* window, then rejects without recording when the rest is at or above the
\* limit, and otherwise records the current time and admits.
C9_WindowBound ==
    /\ \A k \in DOMAIN windows : Len(windows[k]) <= LimitOf(k)
    /\ \A k \in DOMAIN probe.log : \A i \in 1..Len(probe.log[k]) :
          Cardinality({j \in 1..Len(probe.log[k]) :
                          /\ probe.log[k][i] <= probe.log[k][j]
                          /\ probe.log[k][j] <= probe.log[k][i] + WindowSecs})
            <= LimitOf(k)
    /\ probe.op = "check"
       => LET inWindow(t) == probe.at - t <= 60
              kept == SelectSeq(probe.before, inWindow)
          IN  /\ probe.admitted <=> Len(kept) < probe.limit
              /\ windows[probe.key] = IF probe.admitted THEN Append(kept, probe.at) ELSE kept

\* a check found the queue full, pruned it and admitted: over time the key
\* has been admitted more often than its limit
C9_Witness ==
    /\ probe.op = "check"
    /\ probe.admitted
    /\ probe.limit > 0
    /\ Len(probe.before) >= probe.limit
    /\ Len(AdmittedAt(probe.key)) > probe.limit

\* C10: authorize(raw) returns an identity exactly when raw is the secret of
\* a loaded record whose expires_at is absent or not before the current
\* time, and the identity carries that record's name, fingerprint and
\* per-minute override.
C10_AuthorizeExact ==
    probe.op = "authorize"
    => LET live == {s \in DOMAIN tokens :
                       /\ s = probe.raw
                       /\ \/ tokens[s].expires_at = <<>>
                          \/ tokens[s].expires_at[1] >= probe.at}
       IN  /\ IsSome(probe.result) <=> live # {}
           /\ IsSome(probe.result)
              => /\ probe.result[1].name = tokens[probe.raw].name
                 /\ probe.result[1].token_id = <<"fp">> \o probe.raw
                 /\ probe.result[1].rate_limit_per_minute
                      = tokens[probe.raw].rate_limit_per_minute

\* a credential was accepted at the very instant it expires
C10_Witness ==
    /\ probe.op = "authorize"
    /\ IsSome(probe.result)
    /\ tokens[probe.raw].expires_at = <<probe.at>>


\* the credential a request presents: the custom header's value, else the
\* token of the bearer header; <<>> when there is none or it is empty
Presented(q) ==
    LET x == q.headers.xtoken
        a == q.headers.authz
    IN  IF x # <<>> /\ x[1] # <<>> THEN x[1]
        ELSE IF a # <<>> /\ Len(a[1]) > 7 /\ SubSeq(a[1], 1, 7) = BearerPrefix
             THEN SubSeq(a[1], 8, Len(a[1]))
             ELSE <<>>

\* the credential is missing, empty, unknown, or that of a record expired at t
NotAcceptable(q, t) ==
    \/ Presented(q) = <<>>
    \/ Presented(q) \notin DOMAIN tokens
    \/ /\ tokens[Presented(q)].expires_at # <<>>
       /\ tokens[Presented(q)].expires_at[1] < t

Unauthorized401 ==
    [kind |-> "unauthorized", status |-> 401, url |-> <<>>, path |-> <<>>,
     sha256 |-> <<>>, size |-> 0]

\* C11: a request that arrives with no, an empty, an unknown or an expired
\* credential is answered 401 "unauthorized" in the step that receives it,
\* with no authorization context, no gate and no shared state touched; only
\* requests with a loaded credential and a context are ever past that step;
\* all such rejections carry the same response, expired or unknown.
C11_Unauthorized ==
    /\ [][\A r \in Reqs :
            (pc[r] = "new" /\ pc'[r] # "new" /\ NotAcceptable(req'[r], now))
            => /\ pc'[r] = "done"
               /\ resp'[r] = Unauthorized401
               /\ ext'[r] = <<>>
               /\ st'[r] = st[r]
               /\ shared' = shared]_vars
    /\ [](\A r \in Reqs :
            pc[r] \in {"rate_ip", "rate_token", "acquire"} \cup HandlerPcs
            => /\ ext[r] # <<>>
               /\ Presented(req[r]) \in DOMAIN tokens
               /\ ext[r][1].name = tokens[Presented(req[r])].name)
    /\ [](\A r1, r2 \in Reqs :
            (resp[r1].kind = "unauthorized" /\ resp[r2].kind = "unauthorized")
            => resp[r1] = resp[r2])

\* an expired credential and an unknown one have both been answered 401,
\* while the expired one's record is still loaded
C11_Witness ==
    \E r1, r2 \in Reqs :
        /\ Done(r1) /\ Presented(req[r1]) = S_expiring /\ S_expiring \in DOMAIN tokens
        /\ resp[r1] = Unauthorized401
        /\ Done(r2) /\ Presented(req[r2]) = S_unknown
        /\ resp[r2] = Unauthorized401

\* an empty bearer credential and a request without headers have been answered 401
C11_WitnessEmpty ==
    \E r1, r2 \in Reqs :
        /\ Done(r1) /\ req[r1].headers = Bearer(<<>>) /\ resp[r1] = Unauthorized401
        /\ Done(r2) /\ req[r2].headers = NoHeaders /\ resp[r2] = Unauthorized401


\* C12 as stated: extract_token returns the custom header's value whenever
\* that header is present and non-empty, whatever the Authorization header
\* holds; otherwise the non-empty token that follows "Bearer " in the
\* Authorization header; otherwise none.
C12_ExtractExact ==
    probe.op = "extract_token"
    => LET x == probe.headers.xtoken
           a == probe.headers.authz
       IN  probe.result =
             IF x # <<>> /\ x[1] # <<>> THEN <<x[1]>>
             ELSE IF a # <<>> /\ Len(a[1]) > 7 /\ SubSeq(a[1], 1, 7) = BearerPrefix
                  THEN <<SubSeq(a[1], 8, Len(a[1]))>>
                  ELSE <<>>

\* every byte of the value is visible ASCII
Readable(v) == \A i \in 1..Len(v) : v[i] # "0xFF"

\* C12 as amended: extract_token returns the custom header's value whenever
\* that header is present, readable as visible-ASCII text and non-empty,
\* whatever the Authorization header holds; otherwise the non-empty token
\* that follows "Bearer " in a readable Authorization header; otherwise
\* none; it never returns an empty credential.
C12_ExtractReadable ==
    probe.op = "extract_token"
    => LET x == probe.headers.xtoken
           a == probe.headers.authz
       IN  /\ probe.result =
                IF x # <<>> /\ x[1] # <<>> /\ Readable(x[1]) THEN <<x[1]>>
                ELSE IF /\ a # <<>> /\ Readable(a[1])
                        /\ Len(a[1]) > 7 /\ SubSeq(a[1], 1, 7) = BearerPrefix
                     THEN <<SubSeq(a[1], 8, Len(a[1]))>>
                     ELSE <<>>
           /\ probe.result # <<<<>>>>

\* both headers carried a credential and the custom header's was returned
C12_Witness ==
    /\ probe.op = "extract_token"
    /\ probe.headers.xtoken = <<S_secret>>
    /\ probe.headers.authz = <<BearerPrefix \o S_limited>>
    /\ probe.result = <<S_secret>>


\* C13: every return of the upload handler increments exactly one of
\* upload_ok and upload_fail, by one: upload_ok with a success response,
\* upload_fail with any error response, whatever the stage that failed.
C13_ExactlyOneCounter ==
    [][\A r \in Reqs :
          (pc[r] \in HandlerPcs /\ pc'[r] = "done")
          => IF resp'[r].kind = "ok"
             THEN /\ metrics'.upload_ok = metrics.upload_ok + 1
                  /\ metrics'.upload_fail = metrics.upload_fail
             ELSE /\ metrics'.upload_fail = metrics.upload_fail + 1
                  /\ metrics'.upload_ok = metrics.upload_ok]_vars


\* the requests at one of the two gates
AtGate(r) == pc[r] \in {"rate_ip", "rate_token", "acquire"}

\* C14: a rejection by the rate gate (address or identity window) or by the
\* concurrency gate adds one to upload_limited and leaves upload_ok and
\* upload_fail alone; no other step changes upload_limited, so it counts
\* exactly the requests answered 429 and no admitted request adds to it.
C14_LimitedCounter ==
    /\ [][\A r \in Reqs :
            (AtGate(r) /\ pc'[r] = "done")
            => /\ resp'[r].kind = "too_many_requests"
               /\ resp'[r].status = 429
               /\ metrics'.upload_limited = metrics.upload_limited + 1
               /\ metrics'.upload_ok = metrics.upload_ok
               /\ metrics'.upload_fail = metrics.upload_fail]_vars
    /\ [][(\A r \in Reqs : ~(AtGate(r) /\ pc'[r] = "done"))
            => metrics'.upload_limited = metrics.upload_limited]_vars
    /\ [](metrics.upload_limited =
            Cardinality({r \in Reqs : resp[r].kind = "too_many_requests"}))
    /\ [](\A r \in Reqs :
            pc[r] \in HandlerPcs => resp[r].kind # "too_many_requests")

\* one request was rejected (by its identity's window or by the concurrency
\* gate) after the address window admitted it, the other was admitted by
\* both gates and succeeded
C14_Witness ==
    \E r1, r2 \in Reqs :
        /\ Succeeded(r1)
        /\ Done(r2) /\ resp[r2].kind = "too_many_requests"
        /\ Len(windows[IpKey(ExtractIp(req[r2]))]) = 2
        /\ metrics = [upload_ok |-> 1, upload_fail |-> 0, upload_limited |-> 1]


FileName(r) == req[r].parts.filename[1]

\* the checks that come before the extension check have passed for r's
\* request: a first part named "file" that declares a filename
DeclaresFile(r) ==
    /\ req[r].parts.kind = "field"
    /\ req[r].parts.name = "file"
    /\ req[r].parts.filename # <<>>

\* the filename's extension, read after the last dot past the first
\* character, is "webp" in some letter case
EndsInWebp(f) ==
    /\ Len(f) >= 6
    /\ f[Len(f) - 4] = "."
    /\ f[Len(f) - 3] \in {"w", "W"}
    /\ f[Len(f) - 2] \in {"e", "E"}
    /\ f[Len(f) - 1] \in {"b", "B"}
    /\ f[Len(f)] \in {"p", "P"}

\* C16: when the first part declares a filename whose extension is not
\* "webp" in any letter case (no extension included), the handler's first
\* step answers 415 "unsupported_media_type" with no body byte read, no
\* temp file created and the store untouched; no request with such a
\* filename is ever past that step or owns a temp or final file.
C16_BadExtension ==
    /\ [][\A r \in Reqs :
            (pc[r] = "next_field" /\ pc'[r] \notin {"next_field", "cancelled"}
                /\ DeclaresFile(r) /\ ~EndsInWebp(FileName(r)))
            => /\ pc'[r] = "done"
               /\ resp'[r].kind = "unsupported_media_type"
               /\ resp'[r].status = 415
               /\ st[r].pos = 0 /\ st[r].size = 0 /\ st[r].tmp = <<>>
               /\ tmpFiles' = tmpFiles
               /\ finalFiles' = finalFiles]_vars
    /\ [](\A r \in Reqs :
            (DeclaresFile(r) /\ ~EndsInWebp(FileName(r)))
            => /\ pc[r] \notin HandlerPcs \ {"next_field"}
               /\ TempsOf(r) = {}
               /\ \A p \in DOMAIN finalFiles : finalFiles[p].ino # r
               /\ resp[r].kind \in {"none", "unauthorized", "too_many_requests",
                                    "unsupported_media_type"})

\* a .png upload and an upload without extension have both been refused,
\* with nothing under .tmp and nothing stored
C16_Witness ==
    \E r1, r2 \in Reqs :
        /\ Done(r1) /\ req[r1].parts.filename = <<F_png>>
        /\ resp[r1].kind = "unsupported_media_type"
        /\ Done(r2) /\ req[r2].parts.filename = <<F_noext>>
        /\ resp[r2].kind = "unsupported_media_type"
        /\ DOMAIN tmpFiles = {} /\ DOMAIN finalFiles = {}
        /\ metrics.upload_fail = 2


\* the bytes b do not start with a RIFF....WEBP signature
LacksSignature(b) ==
    \/ Len(b) < 12
    \/ SubSeq(b, 1, 4) # <<82, 73, 70, 70>>
    \/ SubSeq(b, 9, 12) # <<87, 69, 66, 80>>

\* the bytes of r's body received so far
Received(r) == SubSeq(Body(r), 1, st[r].pos)

Fresh(key) ==
    LET q == IF key \in DOMAIN windows THEN windows[key] ELSE <<>>
        young(t) == now - t <= 60
    IN  SelectSeq(q, young)

\* the keys of r's source address and of r's identity
AddressKey(r) ==
    <<"ip:", IF req[r].xff # <<>> THEN req[r].xff[1] ELSE req[r].peer>>

IdentityKey(r) == <<"token:">> \o ext[r][1].token_id

\* the per-minute override of r's identity, <<>> if it has none
Override(r) == tokens[Presented(req[r])].rate_limit_per_minute

\* C18: the rate gate lets a request through to the concurrency gate only
\* after its address window, under the global limit, had room and recorded
\* it, and, when its identity has an override, only after the identity's
\* window, under the override, had room and recorded it too; a request
\* whose identity has no override leaves every identity window as it was,
\* and no window exists for an identity without override.
C18_BothWindows ==
    /\ [][\A r \in Reqs :
            (pc[r] = "rate_ip" /\ pc'[r] \in {"rate_token", "acquire"})
            => /\ Len(Fresh(AddressKey(r))) < config.rate_limit_per_minute
               /\ windows'[AddressKey(r)] = Append(Fresh(AddressKey(r)), now)
               /\ (pc'[r] = "acquire") <=> (Override(r) = <<>>)]_vars
    /\ [][\A r \in Reqs :
            (pc[r] = "rate_token" /\ pc'[r] = "acquire")
            => /\ Override(r) # <<>>
               /\ Len(Fresh(IdentityKey(r))) < Override(r)[1]
               /\ windows'[IdentityKey(r)] = Append(Fresh(IdentityKey(r)), now)]_vars
    /\ [][\A r \in Reqs :
            (pc[r] \in {"rate_ip", "rate_token"} /\ pc'[r] = "done")
            => /\ resp'[r].kind = "too_many_requests"
               /\ IF pc[r] = "rate_ip"
                  THEN Len(Fresh(AddressKey(r))) >= config.rate_limit_per_minute
                  ELSE Len(Fresh(IdentityKey(r))) >= Override(r)[1]]_vars
    /\ [][\A r \in Reqs :
            (pc[r] # pc'[r] /\ pc[r] # "new" /\ Override(r) = <<>>)
            => \A k \in DOMAIN windows' :
                  k[1] = "token:" => k \in DOMAIN windows /\ windows'[k] = windows[k]]_vars
    /\ [](\A r \in Reqs : pc[r] = "rate_token" => Override(r) # <<>>)
    /\ [](\A k \in DOMAIN windows :
            k[1] = "token:"
            => \E s \in DOMAIN tokens :
                  /\ tokens[s].rate_limit_per_minute # <<>>
                  /\ k = <<"token:">> \o tokens[s].token_id)

\* the address window admitted two requests of one identity, whose own
\* window, under an override of 1, admitted the first and rejected the second
C18_Witness ==
    \E r1, r2 \in Reqs :
        /\ r1 # r2
        /\ pc[r1] \in HandlerPcs \cup {"acquire"}
        /\ Done(r2) /\ resp[r2].kind = "too_many_requests"
        /\ Presented(req[r1]) = S_limited /\ Presented(req[r2]) = S_limited
        /\ Len(windows[AddressKey(r2)]) = 2
        /\ Len(windows[<<"token:", "fp">> \o S_limited]) = 1
        /\ permits + Cardinality(InHandler) = config.max_concurrent_uploads
        /\ metrics.upload_limited = 1


\* r's body has no part, or a first part that is not named "file" or
\* declares no filename
NoFileField(r) ==
    \/ req[r].parts.kind = "empty"
    \/ /\ req[r].parts.kind = "field"
       /\ req[r].parts.name # "file" \/ req[r].parts.filename = <<>>

\* C19: a request with zero parts, with a first part not named "file", or
\* with a first part that declares no filename is answered 400 "bad_request"
\* by the handler's first step, whatever follows the first part, with no
\* temp or final file created; such a request is never past that step; and
\* what a request stages or commits is the body of its first part alone.
C19_BadRequest ==
    /\ [][\A r \in Reqs :
            (pc[r] = "next_field" /\ pc'[r] \notin {"next_field", "cancelled"}
                /\ NoFileField(r))
            => /\ pc'[r] = "done"
               /\ resp'[r].kind = "bad_request"
               /\ resp'[r].status = 400
               /\ tmpFiles' = tmpFiles
               /\ finalFiles' = finalFiles]_vars
    /\ [](\A r \in Reqs :
            (pc[r] \notin {"new", "cancelled"} /\ NoFileField(r))
            => /\ pc[r] \notin HandlerPcs \ {"next_field"}
               /\ TempsOf(r) = {}
               /\ \A p \in DOMAIN finalFiles : finalFiles[p].ino # r
               /\ resp[r].kind \in {"none", "unauthorized", "too_many_requests",
                                    "bad_request"})
    /\ [](\A r \in Reqs :
            /\ \A n \in TempsOf(r) :
                  pc[r] \in HandlerPcs
                  => tmpFiles[n].data = SubSeq(req[r].parts.body, 1, Len(tmpFiles[n].data))
            /\ \A p \in DOMAIN finalFiles :
                  finalFiles[p].ino = r => finalFiles[p].data = req[r].parts.body
            /\ Succeeded(r) => resp[r].size = Len(req[r].parts.body))

\* a request whose first part is not the file field, though a valid file
\* part follows, has been answered bad_request; an upload followed by a
\* second part has been stored from its first part alone
C19_Witness ==
    \E r1, r2 \in Reqs :
        /\ Done(r1) /\ req[r1].parts.name = "note" /\ req[r1].parts.rest # <<>>
        /\ req[r1].parts.rest[1].name = "file"
        /\ resp[r1].kind = "bad_request"
        /\ Succeeded(r2) /\ req[r2].parts.rest # <<>>
        /\ DOMAIN tmpFiles = {}
        /\ \A p \in DOMAIN finalFiles : finalFiles[p].data = req[r2].parts.body

\* a request without parts and one without filename have been answered bad_request
C19_WitnessEmpty ==
    \E r1, r2 \in Reqs :
        /\ Done(r1) /\ req[r1].parts.kind = "empty" /\ resp[r1].kind = "bad_request"
        /\ Done(r2) /\ req[r2].parts.kind = "field" /\ req[r2].parts.filename = <<>>
        /\ resp[r2].kind = "bad_request"
        /\ metrics.upload_fail = 2


\* C20: the concurrency-slot and rate-limit checks come first and the
\* credential is resolved after them: a request at a gate has no
\* authorization context yet, and a request answered 401 has been through
\* the rate gate, which recorded it in its address window.
C20_AdmissionFirst ==
    \A r \in Reqs :
        /\ AtGate(r) => ext[r] = <<>>
        /\ (Done(r) /\ resp[r].kind = "unauthorized") => AddressKey(r) \in DOMAIN windows

\* the stage a request is at
Stage(r) ==
    CASE pc[r] = "new" -> 0
      [] pc[r] = "rate_ip" -> 1
      [] pc[r] = "rate_token" -> 2
      [] pc[r] = "acquire" -> 3
      [] pc[r] \in HandlerPcs -> 4
      [] OTHER -> 5

\* the order build_app gives the stages: the credential is resolved first,
\* a request is answered 401 or given its authorization context before any
\* gate is consulted, with the windows, the permits and the counters
\* untouched; then comes the rate gate (address window, then the identity's
\* window when it has an override), then the concurrency slot, then the
\* handler; a request never goes back a stage, reaches the handler only by
\* taking a permit at the concurrency gate, and is at a gate or in the
\* handler only with a context.
StagesAsBuilt ==
    /\ [][\A r \in Reqs :
            (pc[r] = "new" /\ pc'[r] # "new")
            => /\ shared' = shared
               /\ \/ pc'[r] = "done" /\ resp'[r].kind = "unauthorized" /\ ext'[r] = <<>>
                  \/ pc'[r] = "rate_ip" /\ ext'[r] # <<>>]_vars
    /\ [][\A r \in Reqs :
            pc'[r] # pc[r]
            => <<pc[r], pc'[r]>> \in
                  ({"new"} \X {"rate_ip", "done"})
                  \cup ({"rate_ip"} \X {"rate_token", "acquire", "done"})
                  \cup ({"rate_token"} \X {"acquire", "done"})
                  \cup ({"acquire"} \X {"next_field", "done"})
                  \cup (HandlerPcs \X (HandlerPcs \cup {"done", "cancelled"}))]_vars
    /\ [][\A r \in Reqs :
            (Stage(r)' = 4 /\ Stage(r) # 4)
            => pc[r] = "acquire" /\ pc'[r] = "next_field" /\ permits' = permits - 1]_vars
    /\ [](\A r \in Reqs : Stage(r) \in 1..4 => ext[r] # <<>>)

\* a request with an unknown credential has been answered 401 with no
\* window of its address, while another went through every stage and succeeded
UnthrottledRejection ==
    \E r1, r2 \in Reqs :
        /\ Done(r1) /\ resp[r1].kind = "unauthorized" /\ Presented(req[r1]) = S_unknown
        /\ AddressKey(r1) \notin DOMAIN windows
        /\ Succeeded(r2)
        /\ AddressKey(r2) \in DOMAIN windows
        /\ IdentityKey(r2) \in DOMAIN windows
        /\ metrics = [upload_ok |-> 1, upload_fail |-> 0, upload_limited |-> 0]


\* the final path r has derived for its upload
Destination(r) == FinalPath(st[r].year, st[r].month, st[r].sha256)

\* r ends with a success response in this step, its temp file gone
EndsInSuccess(r) ==
    /\ pc'[r] = "done"
    /\ resp'[r].kind = "ok"
    /\ Tail(resp'[r].path) = Destination(r)
    /\ \A n \in DOMAIN tmpFiles' : tmpFiles'[n].ino # r
    /\ metrics'.upload_ok = metrics.upload_ok + 1
    /\ metrics'.upload_fail = metrics.upload_fail

YearAt(t) == IF t < MonthSecs THEN 2026 ELSE 2027

MonthAt(t) == IF t < MonthSecs THEN 12 ELSE t \div MonthSecs

YearText(y) ==
    CASE y = 2026 -> <<"2", "0", "2", "6">> [] y = 2027 -> <<"2", "0", "2", "7">>

MonthText(m) ==
    CASE m = 12 -> <<"1", "2">> [] m = 1 -> <<"0", "1">> [] m = 2 -> <<"0", "2">>
      [] m = 3 -> <<"0", "3">>

\* C22: year and month are read from the UTC clock in the step that follows
\* the last chunk, the flush and the signature check, not earlier, and are
\* kept until the response; the reported path is "/", the 4-digit year, the
\* 2-digit month and the hex SHA-256 of the body with ".webp", and names,
\* under the storage root, the very place the file was moved to or found at.
C22_PathFromCommitDate ==
    /\ [][\A r \in Reqs :
            (pc'[r] \in HandlerPcs /\ <<st'[r].year, st'[r].month>> # <<st[r].year, st[r].month>>)
            => /\ pc[r] = "flush"
               /\ st[r].pos = Len(Body(r))
               /\ ~LacksSignature(Body(r))
               /\ st'[r].year = YearAt(now)
               /\ st'[r].month = MonthAt(now)
               /\ st[r].year = 0]_vars
    /\ [][\A r \in Reqs :
            (pc[r] \in HandlerPcs /\ pc'[r] = "done" /\ resp'[r].kind = "ok")
            => /\ resp'[r].path =
                    <<"/", YearText(st[r].year), MonthText(st[r].month), "sha256">>
                        \o Body(r) \o <<".webp">>
               /\ Tail(resp'[r].path) \in DOMAIN finalFiles'
               /\ finalFiles'[Tail(resp'[r].path)].data = Body(r)
               /\ \/ finalFiles'[Tail(resp'[r].path)].ino = r
                  \/ /\ Tail(resp'[r].path) \in DOMAIN finalFiles
                     /\ finalFiles'[Tail(resp'[r].path)] = finalFiles[Tail(resp'[r].path)]]_vars
    /\ [](\A r \in Reqs :
            Succeeded(r)
            => /\ Len(resp[r].path[2]) = 4
               /\ Len(resp[r].path[3]) = 2
               /\ resp[r].url = <<"https://img.example.com/images">> \o resp[r].path)

\* an upload admitted in December 2026 was committed in January 2027 and
\* reports, and is stored under, /2027/01
C22_Witness ==
    \E r \in Reqs :
        /\ Succeeded(r)
        /\ windows[AddressKey(r)] = <<0>>
        /\ now >= MonthSecs
        /\ resp[r].path[2] = <<"2", "0", "2", "7">>
        /\ resp[r].path[3] = <<"0", "1">>
        /\ finalFiles[Tail(resp[r].path)].ino = r


\* the queue a window map holds for a key, empty if it holds none
QueueIn(m, k) == IF k \in DOMAIN m THEN m[k] ELSE <<>>

\* C23: a check on one key leaves the queue of every other key as it was,
\* creating none and dropping none, and its verdict is a function of its own
\* key's queue, the limit and the clock alone; address keys and identity
\* keys are different keys.
C23_KeysIndependent ==
    /\ [][probe' # probe
            => /\ probe'.op = "check"
               /\ \A k \in (DOMAIN windows \cup DOMAIN windows') \ {probe'.key} :
                     /\ k \in DOMAIN windows
                     /\ k \in DOMAIN windows'
                     /\ windows'[k] = windows[k]
               /\ LET young(t) == now - t <= 60
                      own == SelectSeq(QueueIn(windows, probe'.key), young)
                  IN  /\ probe'.admitted <=> Len(own) < probe'.limit
                      /\ windows'[probe'.key]
                           = IF probe'.admitted THEN Append(own, now) ELSE own]_vars
    /\ [](\A k1, k2 \in DOMAIN windows : (k1[1] = "ip:" /\ k2[1] = "token:") => k1 # k2)

\* a check on an identity key was admitted while an address key's queue,
\* stale and full, stayed as it was
C23_Witness ==
    /\ probe.op = "check"
    /\ probe.key[1] = "token:"
    /\ probe.admitted
    /\ \E k \in DOMAIN windows :
          /\ k[1] = "ip:"
          /\ Len(windows[k]) = 2
          /\ now - windows[k][1] > 60


\* the callers inside check, between taking the lock and dropping the guard
InCheck == {c \in Callers : probe.at[c] \in {"locked", "pruned", "compared", "return"}}

\* the slots the window had left when the race started
FreeSlots ==
    LET young(t) == now - t <= 60
        fresh == Len(SelectSeq(probe.initial, young))
    IN  IF probe.limit > fresh THEN probe.limit - fresh ELSE 0

Admitted == {c \in Callers : probe.verdict[c] = "admitted"}

Returned == {c \in Callers : probe.verdict[c] # "none"}

\* C24: at most one caller is inside check at a time, and it is the holder
\* of the lock; whenever no caller is inside, the callers admitted so far
\* number min(returned, free slots), and when all n have returned exactly
\* min(n, k) were admitted and the window holds the fresh timestamps it had
\* plus one per admitted caller.
C24_AtomicCheck ==
    /\ Cardinality(InCheck) <= 1
    /\ \A c \in InCheck : probe.holder = <<c>>
    /\ (InCheck = {}) => probe.holder = <<>>
    /\ Cardinality(Admitted) <= FreeSlots
    /\ (InCheck = {})
       => Cardinality(Admitted) =
             IF Cardinality(Returned) < FreeSlots THEN Cardinality(Returned) ELSE FreeSlots
    /\ (\A c \in Callers : probe.at[c] = "done")
       => /\ Cardinality(Admitted) =
                IF Cardinality(Callers) < FreeSlots THEN Cardinality(Callers) ELSE FreeSlots
          /\ Len(windows[<<"ip:", "10.0.0.1">>]) = probe.limit - FreeSlots + Cardinality(Admitted)

\* three callers raced for the one slot a stale timestamp had freed: one
\* was admitted, two were rejected
C24_Witness ==
    /\ \A c \in Callers : probe.at[c] = "done"
    /\ probe.limit = 2
    /\ Len(probe.initial) = 2
    /\ FreeSlots = 1
    /\ Cardinality(Admitted) = 1
    /\ Cardinality(Returned) = 3


\* the state of the upload state machine a request is in
Phase(r) ==
    CASE pc[r] \in {"new", "rate_ip", "rate_token", "acquire"} -> "Start"
      [] pc[r] = "next_field" -> "AwaitField"
      [] pc[r] \in {"mk_tmp_dir", "create_tmp", "chunk", "write"} -> "Streaming"
      [] pc[r] = "flush" -> "Staged"
      [] pc[r] \in {"mk_final_dir", "try_exists", "rename", "dedup"} -> "Validated"
      [] pc[r] = "cleanup" -> "Aborted"
      [] pc[r] = "cancelled" -> "Dropped"
      [] pc[r] = "done" /\ resp[r].kind = "ok" -> "Committed"
      [] pc[r] = "done" /\ resp[r].kind \in {"unauthorized", "too_many_requests"} -> "Rejected"
      [] OTHER -> "Aborted"

Rank(phase) ==
    CASE phase = "Start" -> 0
      [] phase = "AwaitField" -> 1
      [] phase = "Streaming" -> 2
      [] phase = "Staged" -> 3
      [] phase = "Validated" -> 4
      [] OTHER -> 5

\* C25: a request that is not dropped moves from each state only to the
\* same state, the next one or Aborted, and to Committed only from
\* Validated; it never leaves Committed or Aborted, so a failed step is
\* not tried again; its response is produced once, on reaching a terminal
\* state; and every request inside the handler eventually reaches
\* Committed or Aborted with its response, unless it is dropped.
C25_StateMachine ==
    /\ [][\A r \in Reqs :
            (Phase(r)' # Phase(r) /\ Phase(r)' # "Dropped")
            => /\ Phase(r) \notin {"Committed", "Aborted", "Rejected", "Dropped"}
               /\ \/ Phase(r)' \in {"Aborted", "Rejected"}
                  \/ Rank(Phase(r)') = Rank(Phase(r)) + 1
               /\ Phase(r)' = "Rejected" => Phase(r) = "Start"
               /\ Phase(r)' = "Aborted" => Phase(r) # "Start"]_vars
    /\ [][\A r \in Reqs :
            (Phase(r) = "Aborted" /\ pc[r] = "cleanup" /\ pc'[r] # "cleanup")
            => pc'[r] \in {"done", "cancelled"}]_vars
    /\ [][\A r \in Reqs :
            resp'[r] # resp[r]
            => /\ resp[r].kind = "none"
               /\ pc[r] # "done" /\ pc'[r] = "done"]_vars
    /\ [](\A r \in Reqs : (pc[r] = "done") <=> (resp[r].kind # "none"))
    /\ \A r \in Reqs :
          (Phase(r) \in {"AwaitField", "Streaming", "Staged", "Validated"})
          ~> \/ Phase(r) = "Dropped"
             \/ Phase(r) \in {"Committed", "Aborted"} /\ pc[r] = "done"

\* one upload went through every state to Committed while the other, whose
\* body lacks the signature, was Aborted from Staged and has answered
C25_Witness ==
    \E r1, r2 \in Reqs :
        /\ Phase(r1) = "Committed"
        /\ Phase(r2) = "Aborted" /\ pc[r2] = "done"
        /\ resp[r2].kind = "unsupported_media_type"
        /\ Body(r2) = HelloWorld


\* ------------------------------------------------------------------- C26
\* the shared state as main() leaves it
Pristine ==
    /\ windows = EmptyMap
    /\ permits = config.max_concurrent_uploads
    /\ metrics = [upload_ok |-> 0, upload_fail |-> 0, upload_limited |-> 0]
    /\ tmpFiles = EmptyMap
    /\ finalFiles = EmptyMap

\* request r has been answered 401
RejectedUnauthorized(r) == pc[r] = "done" /\ resp[r].kind = "unauthorized"

\* C26: the step that answers a request 401 Unauthorized leaves every
\* rate-limit window, the permits, the three counters, the temp files and the
\* stored objects as they were; such a request never carries an identity; and
\* while every request seen so far was either not yet received or answered
\* 401, the shared state is still the one the server started with.
C26_UnauthorizedFrame ==
    /\ [][\A r \in Reqs :
             (~RejectedUnauthorized(r) /\ RejectedUnauthorized(r)')
                => /\ windows' = windows
                   /\ permits' = permits
                   /\ metrics' = metrics
                   /\ tmpFiles' = tmpFiles
                   /\ finalFiles' = finalFiles]_vars
    /\ [](\A r \in Reqs : RejectedUnauthorized(r) => ext[r] = NoAuth)
    /\ []((\A r \in Reqs : pc[r] = "new" \/ RejectedUnauthorized(r)) => Pristine)

\* one request has been answered 401 while the other holds a permit, a
\* window entry and a temp file with bytes in it: all of that is untouched
C26_Witness ==
    /\ RejectedUnauthorized("r2")
    /\ pc["r1"] = "chunk"
    /\ IsSome(st["r1"].tmp)
    /\ Unwrap(st["r1"].tmp) \in DOMAIN tmpFiles
    /\ tmpFiles[Unwrap(st["r1"].tmp)].data # <<>>
    /\ permits = config.max_concurrent_uploads - 1
    /\ windows # EmptyMap
    /\ metrics = [upload_ok |-> 0, upload_fail |-> 0, upload_limited |-> 0]


\* ------------------------------------------------------------------- C27
\* how often timestamp t occurs in queue q
Count(q, t) == Cardinality({i \in DOMAIN q : q[i] = t})

\* every timestamp of window k that is at most 60 seconds old before the step
\* is still in window k after it, as often as before
KeepsFresh(k) ==
    /\ k \in DOMAIN windows'
    /\ \A i \in DOMAIN Fresh(k) :
          Count(windows'[k], Fresh(k)[i]) >= Count(Fresh(k), Fresh(k)[i])

\* C27: a rejection by the identity window leaves the address window of the
\* rejected request exactly as it was, the timestamp recorded for that
\* request included; a rejection by the concurrency gate leaves every window
\* exactly as it was; and no step at all, a rejection or any other, takes a
\* timestamp out of a window before it is more than 60 seconds old, so the
\* rejected request keeps counting against its windows for 60 seconds.
C27_NoRollback ==
    /\ [][\A r \in Reqs :
            (pc[r] = "rate_token" /\ pc'[r] = "done")
            => /\ AddressKey(r) \in DOMAIN windows
               /\ AddressKey(r) \in DOMAIN windows'
               /\ windows'[AddressKey(r)] = windows[AddressKey(r)]
               /\ windows[AddressKey(r)] # <<>>]_vars
    /\ [][\A r \in Reqs :
            (pc[r] = "acquire" /\ pc'[r] = "done")
            => /\ windows' = windows
               /\ AddressKey(r) \in DOMAIN windows
               /\ windows[AddressKey(r)] # <<>>
               /\ Override(r) # <<>>
                  => (IdentityKey(r) \in DOMAIN windows /\ windows[IdentityKey(r)] # <<>>)]_vars
    /\ [][\A k \in DOMAIN windows : KeepsFresh(k)]_vars

\* under one permit, held by a request of another address and identity, a
\* request passed its address window and its identity window, both at time
\* 0, and was then rejected by the concurrency gate: both timestamps are
\* still in their windows
C27_Witness ==
    /\ config.max_concurrent_uploads = 1
    /\ pc["r1"] \in HandlerPcs
    /\ permits = 0
    /\ Done("r2") /\ resp["r2"].kind = "too_many_requests"
    /\ IsSome(ext["r2"]) /\ Override("r2") # <<>>
    /\ AddressKey("r1") # AddressKey("r2")
    /\ Override("r1") = <<>>
    /\ AddressKey("r2") \in DOMAIN windows /\ windows[AddressKey("r2")] = <<0>>
    /\ IdentityKey("r2") \in DOMAIN windows /\ windows[IdentityKey("r2")] = <<0>>
    /\ metrics.upload_limited = 1


\* ------------------------------------------------------------------- C28
\* the handler positions between the signature check and the commit
CommitPcs == {"mk_final_dir", "try_exists", "rename", "dedup"}

\* C28: a successful upload reports the length of the whole body as its size
\* and the digest of the whole body, in arrival order, as its sha256,
\* whatever the chunks were; from the signature check to the commit the temp
\* file holds exactly the body, and the size and digest the handler carries
\* are those of the body; between two chunks the bytes hashed, the bytes in
\* the temp file and the bytes received are the same sequence.
C28_WholeBody ==
    \A r \in Reqs :
        /\ Succeeded(r)
           => /\ resp[r].size = Len(Body(r))
              /\ resp[r].sha256 = Sha256Hex(Body(r))
        /\ pc[r] \in CommitPcs
           => /\ IsSome(st[r].tmp)
              /\ TmpPath(r) \in DOMAIN tmpFiles
              /\ tmpFiles[TmpPath(r)].data = Body(r)
              /\ st[r].size = Len(Body(r))
              /\ st[r].sha256 = Sha256Hex(Body(r))
        /\ pc[r] \in {"chunk", "flush"}
           => /\ TmpPath(r) \in DOMAIN tmpFiles
              /\ tmpFiles[TmpPath(r)].data = Received(r)
              /\ st[r].hasher = Received(r)
              /\ st[r].size = Len(Received(r))

\* one request has succeeded with a 12-byte image while another, sent the
\* same image, holds its last 4 bytes as a second chunk about to be written
C28_Witness ==
    /\ Succeeded("r1")
    /\ Body("r1") = Fixture12
    /\ resp["r1"].size = 12
    /\ resp["r1"].sha256 = <<"sha256">> \o Fixture12
    /\ pc["r2"] = "write"
    /\ Body("r2") = Fixture12
    /\ st["r2"].chunk = WEBP
    /\ st["r2"].hasher = RIFF \o <<16, 0, 0, 0>>


\* ------------------------------------------------------------------- C29
\* succeeded + failed + limited
CounterSum(m) == m.upload_ok + m.upload_fail + m.upload_limited

\* the requests that were answered after passing authorization
AnsweredAuthorized == {r \in Reqs : Done(r) /\ ext[r] # NoAuth}

\* C29: no step lowers a counter; a step raises at most one counter, by
\* one, and only when it is the step that answers a request that passed
\* authorization; an answered request takes no further step; so the sum of
\* the three counters never exceeds the number of answered requests that
\* passed authorization.
C29_CountersMonotone ==
    /\ [][/\ metrics'.upload_ok >= metrics.upload_ok
          /\ metrics'.upload_fail >= metrics.upload_fail
          /\ metrics'.upload_limited >= metrics.upload_limited
          /\ CounterSum(metrics') <= CounterSum(metrics) + 1
          /\ metrics' # metrics
             => \E r \in Reqs :
                   /\ ~Done(r) /\ Done(r)'
                   /\ ext[r] # NoAuth
                   /\ \A q \in Reqs \ {r} : pc'[q] = pc[q]]_vars
    /\ [][\A r \in Reqs : Done(r) => (Done(r)' /\ resp'[r] = resp[r])]_vars
    /\ [](CounterSum(metrics) <= Cardinality(AnsweredAuthorized))

\* two authorized requests have been answered, one stored and one refused
\* for its size: succeeded is 1, failed is 1, limited is 0
C29_Witness ==
    /\ Succeeded("r1")
    /\ Done("r2") /\ resp["r2"].kind = "file_too_large"
    /\ ext["r1"] # NoAuth /\ ext["r2"] # NoAuth
    /\ metrics = [upload_ok |-> 1, upload_fail |-> 1, upload_limited |-> 0]

====
